---- MODULE Spec2Model ----
(***************************************************************************)
(* Model of the three screens of Fynd-fuel.                                *)
(*   HomeScreen (src/app/(tabs)/home.tsx): the debounced, region-driven    *)
(*     station fetch, the id-keyed merge of fetched stations into the      *)
(*     station list, the station filter and the trip-mode handlers.        *)
(*   MapScreen (src/app/(tabs)/addStation.tsx, second component): the      *)
(*     destination search, the route fetch with its formatting and bounds. *)
(*   AddStationScreen (src/app/(tabs)/addStation.tsx, first component):    *)
(*     the location pick, the place search and the station submission.     *)
(* The screens share no state: each is a specification of its own (Spec,   *)
(* MapSpec, AddSpec) over the same variables, the other screens at rest.   *)
(* Time is counted in milliseconds; one Tick advances it by TickMs.        *)
(***************************************************************************)
EXTENDS Integers, Sequences, FiniteSets

\* ------------------------------------------------------------------ bounds
MaxBatch == 2        \* longest batch a station fetch returns
MaxInFlight == 2     \* station fetches in flight at the same time
MaxTrips == 2        \* handleFindTrip invocations that could overlap
TickMs == 200        \* granularity of the clock, in ms
MaxRoute == 3        \* longest coordinate list the bounds are computed for
MaxTerm == 2         \* longest filter term
MaxCalls == 1        \* requests of one kind a screen other than home has in flight
MaxPending == 2      \* requests AddStationScreen has in flight, of all kinds together
MaxMeters == 1250    \* route distances 0..MaxMeters are formatted
MaxSeconds == 200    \* route durations 0..MaxSeconds are formatted

\* ------------------------------------------------------- program constants
DebounceWait == 400  \* useDebouncedCallback(fetchStationsForRegion, 400)

\* Regions: latitude / longitude scaled by 10^4. The deltas of a Region are
\* never read by a handler modelled here and are left out.
FallbackRegion == [latitude |-> 65244, longitude |-> 33792]
OtherRegion == [latitude |-> 64500, longitude |-> 33900]
Regions == {FallbackRegion, OtherRegion}
NullRegion == [latitude |-> -1, longitude |-> -1]

\* Station records: rev tells apart the records the backend returns for one id.
StationIds == {1, 2}
Revs == {1, 2}
Station == [id : StationIds, rev : Revs]

RECURSIVE SeqsUpTo(_, _)
SeqsUpTo(S, n) ==
    IF n = 0 THEN {<< >>}
    ELSE LET shorter == SeqsUpTo(S, n - 1)
         IN shorter \cup {Append(q, x) : q \in shorter, x \in S}

Batches == SeqsUpTo(Station, MaxBatch)

\* Coordinate lists ([lon, lat] pairs) of routes[0].geometry in a routing answer.
RouteCoords == {<< >>, << <<2, 3>> >>, << <<0, 0>>, <<2, 3>>, <<-1, 5>> >>}
\* Coordinates every route list of a bounds computation is drawn from.
RoutePoints == {<<0, 0>>, <<2, 3>>, <<-1, 5>>, <<2, -4>>}
NoRoute == [geometry |-> << <<0>> >>, bounds |-> "null"]
NoCamera == [kind |-> "none", a |-> << >>, b |-> << >>]
TripSlots == 1..MaxTrips

VARIABLES
    \* ---- HomeScreen
    stations,          \* useState<Station[]>: the StationSet, in Map order
    isLoading,         \* useState(true)
    currentRegion,     \* useState<Region | null>
    isTripModeActive,  \* useState(false)
    isTripLoading,     \* useState(false)
    route,             \* useState<{geometry, bounds} | null>
    pendingArgs,       \* debouncedFetch: argument of the last call, << >> when no timer is pending
    timeLeft,          \* debouncedFetch: ms until the pending timer elapses
    inflight,          \* number of get-google-stations invocations awaiting their answer
    request,           \* body of the invocation sent by the last handler (NullRegion when none)
    trips,             \* handleFindTrip invocations: slot -> the await it is suspended at
    mounted,           \* the component is mounted (React; the mounted ref of use-debounce)
    dropped,           \* history: regions passed to debouncedFetch in the pending window and since replaced by another
    received,          \* history: id -> rev of the record the batch answered to the last handler holds for it (0: none)
    delivered,         \* history: id -> rev of the last batch record applied since the last reset (0: none)
    \* ---- MapScreen
    userLocation,      \* useState<LocationObject | null>
    routeCoordinates,  \* useState<any>(null): the GeoJSON LineString
    routeDistance,     \* useState<string>('')
    routeDuration,     \* useState<string>('')
    isRouting,         \* useState(false)
    destinationQuery,  \* useState('')
    isNavigating,      \* useState(false)
    mapStations,       \* useState<Station[]>([]) of MapScreen
    mapLocating,       \* the permission effect of MapScreen has not settled
    geocodes,          \* handleSearch invocations awaiting the geocoder
    routings,          \* fetchRoute invocations awaiting the router
    nearby,            \* fetchStationsNearby invocations awaiting the backend
    \* ---- AddStationScreen
    addRegion,         \* region: useState<Region | null>(null) of AddStationScreen
    address,           \* useState(''): the region whose address is shown (NullRegion: '')
    stationName,       \* useState('')
    isSubmitting,      \* useState(false)
    user,              \* useAuth().user
    searchQuery,       \* useState('')
    searchResults,     \* useState<GooglePlace[]>([]): the text whose predictions are listed (<< >>: none)
    isSearching,       \* useState(false)
    showSearch,        \* useState(false)
    addLocating,       \* the permission effect of AddStationScreen has not settled
    geocoding,         \* reverseGeocode invocations awaiting their result: the regions asked for
    searching,         \* handleSearch invocations awaiting the autocomplete answer: their texts
    detailing,         \* selectPlace invocations awaiting the place details
    inserting,         \* handleSubmit invocations awaiting the insert
    \* ---- shared by the screens
    camera,            \* command given to cameraRef by the last handler (NoCamera when none)
    alert,             \* Alert.alert raised by the last step ("" when none)
    console,           \* console.error / console.log written by the last step ("" when none)
    ev                 \* history: the last handler that ran, and the case it was in

homeVars == <<stations, isLoading, currentRegion, isTripModeActive, isTripLoading,
              route, pendingArgs, timeLeft, inflight, request, trips, mounted,
              dropped, received, delivered>>

mapVars == <<userLocation, routeCoordinates, routeDistance, routeDuration, isRouting,
             destinationQuery, isNavigating, mapStations, mapLocating, geocodes,
             routings, nearby>>

addVars == <<addRegion, address, stationName, isSubmitting, user, searchQuery,
             searchResults, isSearching, showSearch, addLocating, geocoding,
             searching, detailing, inserting>>

vars == <<homeVars, mapVars, addVars, camera, alert, console, ev>>

\* ------------------------------------------------------------ pure helpers
Ids(seq) == {seq[i].id : i \in 1..Len(seq)}

UniqueIds(seq) == \A i, j \in 1..Len(seq) : seq[i].id = seq[j].id => i = j

Max(a, b) == IF a > b THEN a ELSE b

\* Map.prototype.set: overwrite in place when the key exists, append otherwise.
MapSet(m, s) ==
    IF \E i \in 1..Len(m) : m[i].id = s.id
    THEN [i \in 1..Len(m) |-> IF m[i].id = s.id THEN s ELSE m[i]]
    ELSE Append(m, s)

RECURSIVE MapSetAll(_, _)
MapSetAll(m, seq) ==
    IF seq = << >> THEN m ELSE MapSetAll(MapSet(m, Head(seq)), Tail(seq))

\* Mutants of the merge: the batch replaces the list; an existing id keeps its
\* record; the batch is appended without looking at the ids.
MergeReplace(prevStations, data) == MapSetAll(<< >>, data)

RECURSIVE KeepFirstAll(_, _)
KeepFirstAll(m, seq) ==
    IF seq = << >> THEN m
    ELSE KeepFirstAll(IF Head(seq).id \in Ids(m) THEN m ELSE Append(m, Head(seq)), Tail(seq))

MergeKeepOld(prevStations, data) == KeepFirstAll(MapSetAll(<< >>, prevStations), data)

MergeAppend(prevStations, data) == prevStations \o data

\* The updater of setStations in fetchStationsForRegion:
\* new Map(prev.map(s => [s.id, s])), then set every new station, then values().
MergeStations(prevStations, data) == MapSetAll(MapSetAll(<< >>, prevStations), data)

\* The linear scan of handleFindTrip over routeGeometry.coordinates (non-empty).
RECURSIVE ScanBounds(_, _)
ScanBounds(acc, coords) ==
    IF coords = << >> THEN acc
    ELSE LET c == Head(coords)
             minLon == IF c[1] < acc.minLon THEN c[1] ELSE acc.minLon
             maxLon == IF c[1] > acc.maxLon THEN c[1] ELSE acc.maxLon
             minLat == IF c[2] < acc.minLat THEN c[2] ELSE acc.minLat
             maxLat == IF c[2] > acc.maxLat THEN c[2] ELSE acc.maxLat
         IN ScanBounds([minLon |-> minLon, maxLon |-> maxLon,
                        minLat |-> minLat, maxLat |-> maxLat], Tail(coords))

\* Mutant: the box of the first and the last coordinate only.
RouteBoundsEnds(coords) ==
    ScanBounds([minLon |-> coords[1][1], maxLon |-> coords[1][1],
                minLat |-> coords[1][2], maxLat |-> coords[1][2]],
               <<coords[Len(coords)]>>)

RouteBounds(coords) ==
    ScanBounds([minLon |-> coords[1][1], maxLon |-> coords[1][1],
                minLat |-> coords[1][2], maxLat |-> coords[1][2]], coords)

Min(a, b) == IF a < b THEN a ELSE b

\* fetchRoute of MapScreen (addStation.tsx): coordinates.reduce over {ne, sw},
\* started from the first coordinate.
RECURSIVE ReduceBounds(_, _)
ReduceBounds(acc, coordinates) ==
    IF coordinates = << >> THEN acc
    ELSE LET coord == Head(coordinates)
         IN ReduceBounds([ne |-> <<Max(acc.ne[1], coord[1]), Max(acc.ne[2], coord[2])>>,
                          sw |-> <<Min(acc.sw[1], coord[1]), Min(acc.sw[2], coord[2])>>],
                         Tail(coordinates))

FitRouteBounds(coordinates) ==
    ReduceBounds([ne |-> <<coordinates[1][1], coordinates[1][2]>>,
                  sw |-> <<coordinates[1][1], coordinates[1][2]>>], coordinates)

\* ----------------------------------------------------------- station filter
\* Strings are sequences of characters; Chars is the alphabet of station names
\* and filter terms: a letter in both cases, another letter, a blank.
Chars == {"s", "S", "h", " "}

FilterTerms == SeqsUpTo(Chars, MaxTerm)

\* The name field of the record the backend returns for (id, rev).
NameOf(st) ==
    IF st.id = 1
    THEN (IF st.rev = 1 THEN <<"S", "h">> ELSE <<"s", " ", "h">>)
    ELSE (IF st.rev = 1 THEN <<"h", "S">> ELSE <<"h">>)

\* String.prototype.toLowerCase, character by character.
ToLowerCase(str) == [i \in 1..Len(str) |-> IF str[i] = "S" THEN "s" ELSE str[i]]

\* String.prototype.trim: the blanks at both ends removed.
RECURSIVE TrimStart(_)
TrimStart(str) ==
    IF str # << >> /\ Head(str) = " " THEN TrimStart(Tail(str)) ELSE str

RECURSIVE TrimEnd(_)
TrimEnd(str) ==
    IF str # << >> /\ str[Len(str)] = " " THEN TrimEnd(SubSeq(str, 1, Len(str) - 1)) ELSE str

Trim(str) == TrimEnd(TrimStart(str))

\* String.prototype.includes.
Includes(str, searchString) ==
    \E from \in 0..(Len(str) - Len(searchString)) :
        SubSeq(str, from + 1, from + Len(searchString)) = searchString

\* Mutant of the filter: the name is compared as written.
FilteredStationsCaseSensitive(list, filterTerm) ==
    IF Trim(filterTerm) = << >> THEN list
    ELSE LET lowercasedFilter == ToLowerCase(filterTerm)
         IN SelectSeq(list, LAMBDA st : Includes(NameOf(st), lowercasedFilter))

\* filteredStations (useMemo over stations and filterTerm).
FilteredStations(list, filterTerm) ==
    IF Trim(filterTerm) = << >> THEN list
    ELSE LET lowercasedFilter == ToLowerCase(filterTerm)
         IN SelectSeq(list, LAMBDA st : Includes(ToLowerCase(NameOf(st)), lowercasedFilter))

\* Trip Mode State of spec section 4.4, read off the two flags.
TripState ==
    IF isTripLoading THEN "Planning"
    ELSE IF isTripModeActive THEN "Active" ELSE "Idle"

Event(op, tags) == [op |-> op, tags |-> tags]

\* ------------------------------------------------------- route formatting
Digit(k) == <<"0", "1", "2", "3", "4", "5", "6", "7", "8", "9">>[k + 1]

\* Number-to-string of a non-negative integer.
RECURSIVE Decimal(_)
Decimal(n) == IF n < 10 THEN <<Digit(n)>> ELSE Decimal(n \div 10) \o <<Digit(n % 10)>>

\* The distances (meters) of 50 + 100k below 3000 whose quotient by 1000, as an
\* IEEE double, lies at or above the exact quotient: toFixed(1) rounds on the
\* exact value of the double and takes the larger candidate on a tie, so these
\* go up and the other ties go down.
TiesUp == {50, 250, 450, 550, 650, 750, 1050, 1250, 1350, 1550, 1750, 1850,
           2250, 2350, 2450, 2750, 2850, 2950}

\* (distance / 1000).toFixed(1), in tenths of a kilometer.
ToFixedTenths(distance) ==
    IF distance % 100 = 50
    THEN (IF distance \in TiesUp THEN distance \div 100 + 1 ELSE distance \div 100)
    ELSE (distance + 50) \div 100

\* Mutant: the kilometers cut to one decimal instead of rounded.
FormatDistanceCut(distance) ==
    Decimal(distance \div 1000) \o <<".", Digit((distance \div 100) % 10)>> \o <<" ", "k", "m">>

\* (route.distance / 1000).toFixed(1) + ' km'
FormatDistance(distance) ==
    LET tenths == ToFixedTenths(distance)
    IN Decimal(tenths \div 10) \o <<".", Digit(tenths % 10)>> \o <<" ", "k", "m">>

\* Math.round(route.duration / 60) + ' min'; Math.round(x) is floor(x + 1/2).
FormatDuration(duration) == Decimal((duration + 30) \div 60) \o <<" ", "m", "i", "n">>

\* ------------------------------------------------- values of the other screens
\* [distance in meters, duration in seconds] of the routes the router answers.
Metrics == {<<0, 0>>, <<150, 30>>, <<250, 90>>, <<12345, 125>>}

\* Answers of the router to fetchRoute.
MapAnswers ==
    {[code |-> "NoRoute", routes |-> << >>], [code |-> "Ok", routes |-> << >>]}
    \cup {[code |-> "Ok",
           routes |-> <<[coordinates |-> c, distance |-> m[1], duration |-> m[2]]>>] :
             c \in RouteCoords, m \in Metrics}

NoLine == [type |-> "null", coordinates |-> << >>]

\* Texts of the inputs: empty, blank, a name.
Queries == {<< >>, <<" ">>, <<"S", "h">>}

\* Texts typed into the place search of AddStationScreen: one shorter than 3
\* characters, two that are sent to the autocomplete.
LongTexts == {<<"s", "h", "s">>, <<"h", "h", "h">>}
SearchTexts == {<<"S", "h">>} \cup LongTexts

\* name (main_text) of the place a prediction list offers.
PlaceName == <<"S", "h">>

Users == {"u1"}

\* The state of MapScreen after its first render.
MapInit ==
    /\ userLocation = NullRegion
    /\ routeCoordinates = NoLine
    /\ routeDistance = << >>
    /\ routeDuration = << >>
    /\ isRouting = FALSE
    /\ destinationQuery = << >>
    /\ isNavigating = FALSE
    /\ mapStations = << >>
    /\ mapLocating = TRUE
    /\ geocodes = 0
    /\ routings = 0
    /\ nearby = 0

\* The state of AddStationScreen after its first render.
AddInit ==
    /\ addRegion = NullRegion
    /\ address = NullRegion
    /\ stationName = << >>
    /\ isSubmitting = FALSE
    /\ user = "null"
    /\ searchQuery = << >>
    /\ searchResults = << >>
    /\ isSearching = FALSE
    /\ showSearch = FALSE
    /\ addLocating = TRUE
    /\ geocoding = [r \in Regions |-> 0]
    /\ searching = [text \in LongTexts |-> 0]
    /\ detailing = 0
    /\ inserting = 0

\* -------------------------------------------------------------------- Init
\* The state after the first render of HomeScreen: every useState at its
\* initial value, no timer, no request.
Init ==
    /\ stations = << >>
    /\ isLoading = TRUE
    /\ currentRegion = NullRegion
    /\ isTripModeActive = FALSE
    /\ isTripLoading = FALSE
    /\ route = NoRoute
    /\ pendingArgs = << >>
    /\ timeLeft = 0
    /\ inflight = 0
    /\ request = NullRegion
    /\ received = [i \in StationIds |-> 0]
    /\ trips = [t \in TripSlots |-> "none"]
    /\ camera = NoCamera
    /\ alert = ""
    /\ console = ""
    /\ dropped = {}
    /\ delivered = [i \in StationIds |-> 0]
    /\ ev = Event("mount", {})
    /\ mounted = TRUE
    /\ MapInit
    /\ AddInit

\* ------------------------------------------------------ initial screen setup
\* setupInitialScreen: permission refused, position found, or an exception.
SetupInitialScreen ==
    /\ ev.op = "mount"
    /\ \E outcome \in {"denied", "granted", "threw"} :
         \E located \in Regions :
           /\ currentRegion' = IF outcome = "granted" THEN located ELSE FallbackRegion
           /\ alert' = IF outcome = "denied" THEN "Permission Denied" ELSE ""
           /\ console' = IF outcome = "threw" THEN "Failed to setup initial screen:" ELSE ""
           /\ ev' = Event("setupInitialScreen", {outcome})
    /\ camera' = NoCamera
    /\ received' = [i \in StationIds |-> 0]
    /\ request' = NullRegion
    /\ UNCHANGED <<mounted, mapVars, addVars>>
    /\ UNCHANGED <<stations, isLoading, isTripModeActive, isTripLoading, route,
                   pendingArgs, timeLeft, inflight, trips, dropped, delivered>>

\* The map and the controls are rendered only once currentRegion is set, and
\* only while the screen is mounted.
Rendered == mounted /\ currentRegion # NullRegion

\* ---------------------------------------------------------- debounced fetch
\* Mutant: the pending call keeps its first argument.
DebouncedFetchKeepFirst(region) ==
    /\ pendingArgs' = IF pendingArgs = << >> THEN <<region>> ELSE pendingArgs
    /\ timeLeft' = DebounceWait
    /\ dropped' = (dropped \cup {pendingArgs[i] : i \in 1..Len(pendingArgs)}) \ {region}

\* debouncedFetch(region): remember the argument, restart the timer.
DebouncedFetch(region) ==
    /\ pendingArgs' = <<region>>
    /\ timeLeft' = DebounceWait
    /\ dropped' = (dropped \cup {pendingArgs[i] : i \in 1..Len(pendingArgs)}) \ {region}

\* onRegionDidChange(feature) with the map centred on region r.
OnRegionDidChange(r) ==
    /\ Rendered
    /\ currentRegion' = r
    /\ DebouncedFetch(r)
    /\ camera' = NoCamera
    /\ received' = [i \in StationIds |-> 0]
    /\ request' = NullRegion
    /\ alert' = ""
    /\ console' = ""
    /\ ev' = Event("onRegionDidChange",
                   IF ev = Event("cancelTripMode", {"Active"}) /\ pendingArgs # <<r>>
                   THEN {"replacedCancel"} ELSE {})
    /\ UNCHANGED <<mounted, mapVars, addVars>>
    /\ UNCHANGED <<stations, isLoading, isTripModeActive, isTripLoading, route,
                   inflight, trips, delivered>>

\* Time passes while the timer runs; an elapsed timer is served before more passes.
Tick ==
    /\ pendingArgs # << >>
    /\ timeLeft > 0
    /\ timeLeft' = Max(0, timeLeft - TickMs)
    /\ camera' = NoCamera
    /\ received' = [i \in StationIds |-> 0]
    /\ request' = NullRegion
    /\ alert' = ""
    /\ console' = ""
    /\ ev' = Event("tick", {})
    /\ UNCHANGED <<mounted, mapVars, addVars>>
    /\ UNCHANGED <<stations, isLoading, currentRegion, isTripModeActive, isTripLoading,
                   route, pendingArgs, inflight, trips, dropped, delivered>>

\* fetchStationsForRegion(region) up to its await: the null check, the loading
\* flag, the invocation of get-google-stations.
FetchStationsForRegion(region) ==
    IF region = NullRegion
    THEN /\ request' = NullRegion
         /\ UNCHANGED <<isLoading, inflight>>
    ELSE /\ isLoading' = TRUE
         /\ inflight' = inflight + 1
         /\ request' = region

\* use-debounce (not among the sources): per spec sections 4.1 and 5 a pending
\* timer of a torn-down screen is cancelled, its call is never run.
DebouncedRunsAlways == TRUE

DebouncedRuns == mounted

\* The timer elapses: the debounced function runs with the last argument, unless
\* the screen has been unmounted in the meantime: then the call is given up.
TimerFire ==
    /\ pendingArgs # << >>
    /\ timeLeft = 0
    /\ IF DebouncedRuns
       THEN /\ inflight < MaxInFlight
            /\ FetchStationsForRegion(pendingArgs[1])
            /\ ev' = Event("fetchStationsForRegion",
                           (IF dropped # {} THEN {"discarded"} ELSE {})
                           \cup (IF inflight > 0 THEN {"overlap"} ELSE {}))
       ELSE /\ request' = NullRegion
            /\ UNCHANGED <<isLoading, inflight>>
            /\ ev' = Event("debouncedFetch.skipped",
                           IF ev.op = "fetchStationsForRegion.dropped"
                           THEN {"afterDrop"} ELSE {})
    /\ pendingArgs' = << >>
    /\ dropped' = {}
    /\ camera' = NoCamera
    /\ received' = [i \in StationIds |-> 0]
    /\ alert' = ""
    /\ console' = ""
    /\ UNCHANGED <<mounted, mapVars, addVars>>
    /\ UNCHANGED <<stations, currentRegion, isTripModeActive, isTripLoading,
                   route, timeLeft, trips, delivered>>

\* ------------------------------------------------- station fetch completion
\* The record of the last element of data that carries id.
LastRev(data, id) ==
    LET last == CHOOSE i \in 1..Len(data) :
                    /\ data[i].id = id
                    /\ \A j \in (i + 1)..Len(data) : data[j].id # id
    IN data[last].rev

\* Which cases of the merge a completion exercised: "overwrote", a record of the
\* list was replaced by a different one; "mixed", moreover the batch repeated an
\* id and left another id of the list untouched.
MergeTags(prevStations, data) ==
    LET overwrote == \E i \in 1..Len(prevStations) :
                        /\ prevStations[i].id \in Ids(data)
                        /\ LastRev(data, prevStations[i].id) # prevStations[i].rev
    IN (IF overwrote THEN {"overwrote"} ELSE {})
       \cup (IF overwrote /\ ~UniqueIds(data) /\ Ids(prevStations) \ Ids(data) # {}
             THEN {"mixed"} ELSE {})

\* The answer of get-google-stations arrives without error: merge, then finally.
FetchSuccess(data) ==
    /\ mounted
    /\ inflight > 0
    /\ stations' = MergeStations(stations, data)
    /\ isLoading' = FALSE
    /\ inflight' = inflight - 1
    /\ delivered' = [i \in StationIds |->
                        IF i \in Ids(data) THEN LastRev(data, i) ELSE delivered[i]]
    /\ camera' = NoCamera
    /\ received' = [i \in StationIds |-> IF i \in Ids(data) THEN LastRev(data, i) ELSE 0]
    /\ request' = NullRegion
    /\ alert' = ""
    /\ console' = ""
    /\ ev' = Event("fetchStationsForRegion.ok",
                   MergeTags(stations, data)
                   \cup (IF inflight > 1 THEN {"overlap"} ELSE {}))
    /\ UNCHANGED <<mounted, mapVars, addVars>>
    /\ UNCHANGED <<currentRegion, isTripModeActive, isTripLoading, route,
                   pendingArgs, timeLeft, trips, dropped>>

\* Mutant of the error path: the failed fetch stays outstanding, as if retried.
FetchErrorRetries ==
    /\ mounted
    /\ inflight > 0
    /\ isLoading' = TRUE
    /\ camera' = NoCamera
    /\ received' = [i \in StationIds |-> 0]
    /\ request' = NullRegion
    /\ alert' = ""
    /\ console' = "Error fetching stations:"
    /\ ev' = Event("fetchStationsForRegion.error", {})
    /\ UNCHANGED <<mounted, mapVars, addVars>>
    /\ UNCHANGED <<stations, inflight, currentRegion, isTripModeActive,
                   isTripLoading, route, pendingArgs, timeLeft, trips, dropped,
                   delivered>>

\* The invoke answers with an error (or rejects): catch logs, finally clears the flag.
FetchError ==
    /\ mounted
    /\ inflight > 0
    /\ isLoading' = FALSE
    /\ inflight' = inflight - 1
    /\ camera' = NoCamera
    /\ received' = [i \in StationIds |-> 0]
    /\ request' = NullRegion
    /\ alert' = ""
    /\ console' = "Error fetching stations:"
    /\ ev' = Event("fetchStationsForRegion.error",
                   IF stations # << >> THEN {"nonempty"} ELSE {})
    /\ UNCHANGED <<mounted, mapVars, addVars>>
    /\ UNCHANGED <<stations, currentRegion, isTripModeActive, isTripLoading,
                   route, pendingArgs, timeLeft, trips, dropped, delivered>>

\* ---------------------------------------------------------------- trip mode
\* TripPlanner (components/home/TripPlanner, not among the sources): per spec
\* section 4.4 it rejects a find-trip request while one is outstanding.
TripPlannerAcceptsAlways == TRUE

TripPlannerAccepts == \A t \in TripSlots : trips[t] = "none"

\* handleFindTrip(destinationPlaceId) up to its first await.
HandleFindTrip(t) ==
    /\ Rendered
    /\ TripPlannerAccepts
    /\ trips[t] = "none"
    /\ \A u \in TripSlots : u < t => trips[u] # "none"
    /\ isTripLoading' = TRUE
    /\ trips' = [trips EXCEPT ![t] = "locating"]
    /\ camera' = NoCamera
    /\ received' = [i \in StationIds |-> 0]
    /\ request' = NullRegion
    /\ alert' = ""
    /\ console' = ""
    /\ ev' = Event("handleFindTrip", {TripState})
    /\ UNCHANGED <<mounted, mapVars, addVars>>
    /\ UNCHANGED <<stations, isLoading, currentRegion, isTripModeActive, route,
                   pendingArgs, timeLeft, inflight, dropped, delivered>>

\* An await of handleFindTrip resolves and the next request is sent.
TripAdvance(t) ==
    /\ mounted
    /\ trips[t] \in {"locating", "details"}
    /\ trips' = [trips EXCEPT ![t] = IF @ = "locating" THEN "details" ELSE "routing"]
    /\ camera' = NoCamera
    /\ received' = [i \in StationIds |-> 0]
    /\ request' = NullRegion
    /\ alert' = ""
    /\ console' = ""
    /\ ev' = Event("handleFindTrip.await", {})
    /\ UNCHANGED <<mounted, mapVars, addVars>>
    /\ UNCHANGED <<stations, isLoading, currentRegion, isTripModeActive,
                   isTripLoading, route, pendingArgs, timeLeft, inflight, dropped,
                   delivered>>

\* What can throw before line 217, by the await the invocation is suspended at.
FailuresAt(pc) ==
    IF pc = "locating" THEN {"location"}
    ELSE IF pc = "details" THEN {"placeError"}
    ELSE IF pc = "routing" THEN {"network", "notOk", "noRoutes"}
    ELSE {}

\* A throw before any state is set: catch alerts, finally clears the flag.
TripFailed(t, why) ==
    /\ mounted
    /\ why \in FailuresAt(trips[t])
    /\ trips' = [trips EXCEPT ![t] = "none"]
    /\ isTripLoading' = FALSE
    /\ camera' = NoCamera
    /\ received' = [i \in StationIds |-> 0]
    /\ request' = NullRegion
    /\ alert' = "Error Finding Route"
    /\ console' = ""
    /\ ev' = Event("handleFindTrip.failed", {why})
    /\ UNCHANGED <<mounted, mapVars, addVars>>
    /\ UNCHANGED <<stations, isLoading, currentRegion, isTripModeActive, route,
                   pendingArgs, timeLeft, inflight, dropped, delivered>>

\* Mutant: the station list survives the entry into trip mode.
EnterTripModeKeepsStations(coords) ==
    /\ stations' = stations
    /\ route' = [geometry |-> coords, bounds |-> "null"]
    /\ isTripModeActive' = TRUE

\* Lines 217-219: setStations([]), setRoute, setTripModeActive(true).
EnterTripMode(coords) ==
    /\ stations' = << >>
    /\ route' = [geometry |-> coords, bounds |-> "null"]
    /\ isTripModeActive' = TRUE

\* The routing answer has code 'Ok' and a first route with these coordinates:
\* the state is set, then the bounds are scanned (coords[0][0] throws on an
\* empty list) and the camera is fitted; finally clears the flag.
TripRouted(t, coords) ==
    /\ mounted
    /\ trips[t] = "routing"
    /\ trips' = [trips EXCEPT ![t] = "none"]
    /\ EnterTripMode(coords)
    /\ delivered' = [i \in StationIds |-> 0]
    /\ IF coords = << >>
       THEN /\ alert' = "Error Finding Route"
            /\ camera' = NoCamera
       ELSE /\ alert' = ""
            /\ camera' = LET b == RouteBounds(coords)
                         IN [kind |-> "fitBounds", a |-> <<b.minLon, b.minLat>>,
                             b |-> <<b.maxLon, b.maxLat>>]
    /\ isTripLoading' = FALSE
    /\ request' = NullRegion
    /\ received' = [i \in StationIds |-> 0]
    /\ console' = ""
    /\ ev' = Event("handleFindTrip.routed",
                   (IF coords = << >> THEN {"threw"} ELSE {"ok"})
                   \cup (IF stations # << >> THEN {"cleared"} ELSE {}))
    /\ UNCHANGED <<mounted, mapVars, addVars>>
    /\ UNCHANGED <<isLoading, currentRegion, pendingArgs, timeLeft, inflight,
                   dropped>>

\* Mutant: the fetch is issued at once instead of going through the debounce.
CancelTripModeImmediate ==
    /\ Rendered
    /\ inflight < MaxInFlight
    /\ isTripModeActive' = FALSE
    /\ route' = NoRoute
    /\ received' = [i \in StationIds |-> 0]
    /\ camera' = [kind |-> "setCamera",
                  a |-> <<currentRegion.longitude, currentRegion.latitude>>,
                  b |-> <<currentRegion.longitude, currentRegion.latitude>>]
    /\ FetchStationsForRegion(currentRegion)
    /\ alert' = ""
    /\ console' = ""
    /\ ev' = Event("cancelTripMode", {TripState})
    /\ UNCHANGED <<mounted, mapVars, addVars>>
    /\ UNCHANGED <<stations, currentRegion, isTripLoading, trips, delivered,
                   pendingArgs, timeLeft, dropped>>

\* cancelTripMode(): currentRegion is set whenever the control is rendered.
CancelTripMode ==
    /\ Rendered
    /\ isTripModeActive' = FALSE
    /\ route' = NoRoute
    /\ received' = [i \in StationIds |-> 0]
    /\ camera' = [kind |-> "setCamera",
                  a |-> <<currentRegion.longitude, currentRegion.latitude>>,
                  b |-> <<currentRegion.longitude, currentRegion.latitude>>]
    /\ DebouncedFetch(currentRegion)
    /\ request' = NullRegion
    /\ alert' = ""
    /\ console' = ""
    /\ ev' = Event("cancelTripMode", {TripState})
    /\ UNCHANGED <<mounted, mapVars, addVars>>
    /\ UNCHANGED <<stations, isLoading, currentRegion, isTripLoading, inflight,
                   trips, delivered>>

\* ----------------------------------------------------------------- teardown
\* The screen is torn down. home.tsx registers no cleanup of its own; what
\* follows is modelled from spec sections 4.1 and 5: the screen stops reacting,
\* the state setters of the unmounted component set nothing, its refs are
\* empty, and the debounced callback is no longer run (DebouncedRuns).
Unmount ==
    /\ mounted
    /\ mounted' = FALSE
    /\ camera' = NoCamera
    /\ received' = [i \in StationIds |-> 0]
    /\ request' = NullRegion
    /\ alert' = ""
    /\ console' = ""
    /\ ev' = Event("unmount", IF ev.op = "mount" THEN {"setupPending"} ELSE {})
    /\ UNCHANGED <<mapVars, addVars>>
    /\ UNCHANGED <<stations, isLoading, currentRegion, isTripModeActive,
                   isTripLoading, route, pendingArgs, timeLeft, inflight, trips,
                   dropped, delivered>>

\* setupInitialScreen settles on the unmounted screen: setCurrentRegion sets
\* nothing; the alert and the log are still written.
SetupSettledUnmounted ==
    /\ ev = Event("unmount", {"setupPending"})
    /\ \E outcome \in {"denied", "granted", "threw"} :
         /\ alert' = IF outcome = "denied" THEN "Permission Denied" ELSE ""
         /\ console' = IF outcome = "threw" THEN "Failed to setup initial screen:" ELSE ""
         /\ ev' = Event("setupInitialScreen.dropped", {outcome})
    /\ camera' = NoCamera
    /\ received' = [i \in StationIds |-> 0]
    /\ request' = NullRegion
    /\ UNCHANGED <<mounted, mapVars, addVars>>
    /\ UNCHANGED <<stations, isLoading, currentRegion, isTripModeActive,
                   isTripLoading, route, pendingArgs, timeLeft, inflight, trips,
                   dropped, delivered>>

\* A station fetch settles on the unmounted screen: setStations and
\* setIsLoading set nothing; an error is still logged.
FetchSettledUnmounted(outcome) ==
    /\ ~mounted
    /\ inflight > 0
    /\ inflight' = inflight - 1
    /\ console' = IF outcome = "error" THEN "Error fetching stations:" ELSE ""
    /\ camera' = NoCamera
    /\ received' = [i \in StationIds |-> 0]
    /\ request' = NullRegion
    /\ alert' = ""
    /\ ev' = Event("fetchStationsForRegion.dropped", {outcome})
    /\ UNCHANGED <<mounted, mapVars, addVars>>
    /\ UNCHANGED <<stations, isLoading, currentRegion, isTripModeActive,
                   isTripLoading, route, pendingArgs, timeLeft, trips, dropped,
                   delivered>>

\* A find-trip request runs to its end on the unmounted screen: the setters set
\* nothing, cameraRef.current is null; a failure still alerts.
TripSettledUnmounted(t, outcome) ==
    /\ ~mounted
    /\ trips[t] # "none"
    /\ trips' = [trips EXCEPT ![t] = "none"]
    /\ alert' = IF outcome = "threw" THEN "Error Finding Route" ELSE ""
    /\ camera' = NoCamera
    /\ received' = [i \in StationIds |-> 0]
    /\ request' = NullRegion
    /\ console' = ""
    /\ ev' = Event("handleFindTrip.dropped", {outcome})
    /\ UNCHANGED <<mounted, mapVars, addVars>>
    /\ UNCHANGED <<stations, isLoading, currentRegion, isTripModeActive,
                   isTripLoading, route, pendingArgs, timeLeft, inflight, dropped,
                   delivered>>

\* -------------------------------------------------------------------- Next
Next ==
    \/ SetupInitialScreen
    \/ \E r \in Regions : OnRegionDidChange(r)
    \/ Tick
    \/ TimerFire
    \/ \E data \in Batches : FetchSuccess(data)
    \/ FetchError
    \/ \E t \in TripSlots : HandleFindTrip(t)
    \/ \E t \in TripSlots : TripAdvance(t)
    \/ \E t \in TripSlots, why \in {"location", "placeError", "network", "notOk", "noRoutes"} :
          TripFailed(t, why)
    \/ \E t \in TripSlots, coords \in RouteCoords : TripRouted(t, coords)
    \/ CancelTripMode
    \/ Unmount
    \/ SetupSettledUnmounted
    \/ \E outcome \in {"ok", "error"} : FetchSettledUnmounted(outcome)
    \/ \E t \in TripSlots, outcome \in {"routed", "threw"} : TripSettledUnmounted(t, outcome)

Spec == Init /\ [][Next]_vars

\* --------------------------------------------------------------- MapScreen
\* The permission effect settles: refused, position found, or the lookup rejects
\* (nothing catches it).
MapSetup ==
    /\ mapLocating
    /\ mapLocating' = FALSE
    /\ \E outcome \in {"denied", "granted", "threw"} :
         \E located \in Regions :
           /\ userLocation' = IF outcome = "granted" THEN located ELSE userLocation
           /\ alert' = IF outcome = "denied"
                       THEN "Permission to access location was denied" ELSE ""
           /\ ev' = Event("MapScreen.setup", {outcome})
    /\ console' = ""
    /\ camera' = NoCamera
    /\ UNCHANGED <<routeCoordinates, routeDistance, routeDuration, isRouting,
                   destinationQuery, isNavigating, mapStations, geocodes, routings,
                   nearby>>
    /\ UNCHANGED <<homeVars, addVars>>

\* onChangeText of the destination input.
SetDestinationQuery(text) ==
    /\ destinationQuery # text
    /\ destinationQuery' = text
    /\ alert' = ""
    /\ console' = ""
    /\ camera' = NoCamera
    /\ ev' = Event("MapScreen.setDestinationQuery", {})
    /\ UNCHANGED <<userLocation, routeCoordinates, routeDistance, routeDuration,
                   isRouting, isNavigating, mapStations, mapLocating, geocodes,
                   routings, nearby>>
    /\ UNCHANGED <<homeVars, addVars>>

\* handleSearch of MapScreen up to its await.
MapHandleSearch ==
    /\ IF Trim(destinationQuery) = << >>
       THEN /\ UNCHANGED geocodes
            /\ ev' = Event("MapScreen.handleSearch", {"blank"})
       ELSE /\ geocodes < MaxCalls
            /\ geocodes' = geocodes + 1
            /\ ev' = Event("MapScreen.handleSearch", {"sent"})
    /\ alert' = ""
    /\ console' = ""
    /\ camera' = NoCamera
    /\ UNCHANGED <<userLocation, routeCoordinates, routeDistance, routeDuration,
                   isRouting, destinationQuery, isNavigating, mapStations,
                   mapLocating, routings, nearby>>
    /\ UNCHANGED <<homeVars, addVars>>

\* fetchRoute(destLat, destLng) up to its await.
FetchRoute ==
    IF userLocation = NullRegion
    THEN UNCHANGED <<isRouting, routings>>
    ELSE /\ isRouting' = TRUE
         /\ routings' = routings + 1

\* The geocoder answers handleSearch: a place (fetchRoute is called), nothing,
\* or the request throws.
MapSearchSettled(outcome) ==
    /\ geocodes > 0
    /\ geocodes' = geocodes - 1
    /\ IF outcome = "found"
       THEN /\ routings < MaxCalls
            /\ FetchRoute
       ELSE UNCHANGED <<isRouting, routings>>
    /\ alert' = IF outcome = "none" THEN "Not Found" ELSE ""
    /\ console' = IF outcome = "threw" THEN "Geocoding error:" ELSE ""
    /\ camera' = NoCamera
    /\ ev' = Event("MapScreen.handleSearch.settled",
                   {outcome} \cup (IF outcome = "found" /\ userLocation = NullRegion
                                   THEN {"noLocation"} ELSE {}))
    /\ UNCHANGED <<userLocation, routeCoordinates, routeDistance, routeDuration,
                   destinationQuery, isNavigating, mapStations, mapLocating, nearby>>
    /\ UNCHANGED <<homeVars, addVars>>

\* The router answers fetchRoute. With code 'Ok' and a route: the line and the
\* two texts are set, the bounds are reduced (coordinates[0][0] throws on an
\* empty list), the camera is fitted and fetchStationsNearby is called. Any
\* other answer passes the if and leaves everything as it is.
FetchRouteSettled(data) ==
    /\ routings > 0
    /\ routings' = routings - 1
    /\ isRouting' = FALSE
    /\ IF data.code = "Ok" /\ Len(data.routes) > 0
       THEN LET rt == data.routes[1]
            IN /\ routeCoordinates' = [type |-> "LineString", coordinates |-> rt.coordinates]
               /\ routeDistance' = FormatDistance(rt.distance)
               /\ routeDuration' = FormatDuration(rt.duration)
               /\ IF rt.coordinates = << >>
                  THEN /\ console' = "Routing error:"
                       /\ alert' = "Error: Failed to calculate route"
                       /\ camera' = NoCamera
                       /\ UNCHANGED nearby
                       /\ ev' = Event("MapScreen.fetchRoute.settled", {"Ok", "threw"})
                  ELSE /\ nearby < MaxCalls
                       /\ nearby' = nearby + 1
                       /\ console' = ""
                       /\ alert' = ""
                       /\ camera' = LET bounds == FitRouteBounds(rt.coordinates)
                                    IN [kind |-> "fitBounds", a |-> bounds.ne, b |-> bounds.sw]
                       /\ ev' = Event("MapScreen.fetchRoute.settled", {"Ok", "shown"})
       ELSE /\ console' = ""
            /\ alert' = ""
            /\ camera' = NoCamera
            /\ ev' = Event("MapScreen.fetchRoute.settled",
                           IF data.code = "Ok" THEN {"Ok", "noRoutes"} ELSE {"notOk"})
            /\ UNCHANGED <<routeCoordinates, routeDistance, routeDuration, nearby>>
    /\ UNCHANGED <<userLocation, destinationQuery, isNavigating, mapStations,
                   mapLocating, geocodes>>
    /\ UNCHANGED <<homeVars, addVars>>

\* The request of fetchRoute rejects: catch logs and alerts, finally clears the flag.
FetchRouteThrew ==
    /\ routings > 0
    /\ routings' = routings - 1
    /\ isRouting' = FALSE
    /\ console' = "Routing error:"
    /\ alert' = "Error: Failed to calculate route"
    /\ camera' = NoCamera
    /\ ev' = Event("MapScreen.fetchRoute.settled", {"rejected"})
    /\ UNCHANGED <<userLocation, routeCoordinates, routeDistance, routeDuration,
                   destinationQuery, isNavigating, mapStations, mapLocating,
                   geocodes, nearby>>
    /\ UNCHANGED <<homeVars, addVars>>

\* get_nearby_stations answers fetchStationsNearby: rows, no rows object, an error.
NearbySettled(outcome) ==
    /\ nearby > 0
    /\ nearby' = nearby - 1
    /\ \E data \in {<< >>, <<[id |-> 1, rev |-> 1]>>} :
         mapStations' = IF outcome = "data" THEN data ELSE mapStations
    /\ console' = IF outcome = "error" THEN "Error fetching stations:" ELSE ""
    /\ alert' = ""
    /\ camera' = NoCamera
    /\ ev' = Event("MapScreen.fetchStationsNearby.settled", {outcome})
    /\ UNCHANGED <<userLocation, routeCoordinates, routeDistance, routeDuration,
                   isRouting, destinationQuery, isNavigating, mapLocating, geocodes,
                   routings>>
    /\ UNCHANGED <<homeVars, addVars>>

\* The Start Navigation button, shown with a route while not navigating.
StartNavigation ==
    /\ routeCoordinates # NoLine
    /\ ~isNavigating
    /\ isNavigating' = TRUE
    /\ alert' = ""
    /\ console' = ""
    /\ camera' = NoCamera
    /\ ev' = Event("MapScreen.startNavigation", {})
    /\ UNCHANGED <<userLocation, routeCoordinates, routeDistance, routeDuration,
                   isRouting, destinationQuery, mapStations, mapLocating, geocodes,
                   routings, nearby>>
    /\ UNCHANGED <<homeVars, addVars>>

\* The End Navigation button.
EndNavigation ==
    /\ routeCoordinates # NoLine
    /\ isNavigating
    /\ isNavigating' = FALSE
    /\ routeCoordinates' = NoLine
    /\ destinationQuery' = << >>
    /\ camera' = [kind |-> "setCamera", a |-> << >>, b |-> << >>]
    /\ alert' = ""
    /\ console' = ""
    /\ ev' = Event("MapScreen.endNavigation", {})
    /\ UNCHANGED <<userLocation, routeDistance, routeDuration, isRouting,
                   mapStations, mapLocating, geocodes, routings, nearby>>
    /\ UNCHANGED <<homeVars, addVars>>

MapNext ==
    \/ MapSetup
    \/ \E text \in Queries : SetDestinationQuery(text)
    \/ MapHandleSearch
    \/ \E outcome \in {"found", "none", "threw"} : MapSearchSettled(outcome)
    \/ \E data \in MapAnswers : FetchRouteSettled(data)
    \/ FetchRouteThrew
    \/ \E outcome \in {"data", "null", "error"} : NearbySettled(outcome)
    \/ StartNavigation
    \/ EndNavigation

MapSpec == Init /\ [][MapNext]_vars

\* -------------------------------------------------------- AddStationScreen
\* Requests of AddStationScreen awaiting their answer.
Pending ==
    geocoding[FallbackRegion] + geocoding[OtherRegion]
    + searching[<<"s", "h", "s">>] + searching[<<"h", "h", "h">>]
    + detailing + inserting

\* reverseGeocode(latitude, longitude) up to its await.
ReverseGeocode(r) == geocoding' = [geocoding EXCEPT ![r] = @ + 1]

\* The permission effect settles: refused (alert, return), position found
\* (region set, reverse geocode started), or the lookup rejects uncaught.
AddSetup ==
    /\ addLocating
    /\ addLocating' = FALSE
    /\ \E outcome \in {"denied", "granted", "threw"} :
         \E located \in Regions :
           /\ IF outcome = "granted"
              THEN /\ Pending < MaxPending
                   /\ addRegion' = located
                   /\ ReverseGeocode(located)
              ELSE UNCHANGED <<addRegion, geocoding>>
           /\ alert' = IF outcome = "denied"
                       THEN "Permission to access location was denied" ELSE ""
           /\ ev' = Event("AddStationScreen.setup", {outcome})
    /\ console' = ""
    /\ camera' = NoCamera
    /\ UNCHANGED <<address, stationName, isSubmitting, user, searchQuery,
                   searchResults, isSearching, showSearch, searching, detailing,
                   inserting>>
    /\ UNCHANGED <<homeVars, mapVars>>

\* reverseGeocode settles: a formatted address, an empty result, or a throw.
ReverseGeocodeSettled(r, outcome) ==
    /\ geocoding[r] > 0
    /\ geocoding' = [geocoding EXCEPT ![r] = @ - 1]
    /\ address' = IF outcome = "address" THEN r ELSE address
    /\ console' = IF outcome = "threw" THEN "Reverse geocode error" ELSE ""
    /\ alert' = ""
    /\ camera' = NoCamera
    /\ ev' = Event("AddStationScreen.reverseGeocode.settled", {outcome})
    /\ UNCHANGED <<addRegion, stationName, isSubmitting, user, searchQuery,
                   searchResults, isSearching, showSearch, addLocating, searching,
                   detailing, inserting>>
    /\ UNCHANGED <<homeVars, mapVars>>

\* onRegionDidChange of AddStationScreen; the map is rendered once region is set.
AddOnRegionDidChange(r) ==
    /\ addRegion # NullRegion
    /\ Pending < MaxPending
    /\ addRegion' = r
    /\ ReverseGeocode(r)
    /\ alert' = ""
    /\ console' = ""
    /\ camera' = NoCamera
    /\ ev' = Event("AddStationScreen.onRegionDidChange", {})
    /\ UNCHANGED <<address, stationName, isSubmitting, user, searchQuery,
                   searchResults, isSearching, showSearch, addLocating, searching,
                   detailing, inserting>>
    /\ UNCHANGED <<homeVars, mapVars>>

\* onFocus of the search input.
FocusSearch ==
    /\ ~showSearch
    /\ showSearch' = TRUE
    /\ alert' = ""
    /\ console' = ""
    /\ camera' = NoCamera
    /\ ev' = Event("AddStationScreen.focusSearch", {})
    /\ UNCHANGED <<addRegion, address, stationName, isSubmitting, user,
                   searchQuery, searchResults, isSearching, addLocating, geocoding,
                   searching, detailing, inserting>>
    /\ UNCHANGED <<homeVars, mapVars>>

\* handleSearch(text) of AddStationScreen up to its await.
AddHandleSearch(text) ==
    /\ searchQuery' = text
    /\ IF Len(text) < 3
       THEN /\ searchResults' = << >>
            /\ UNCHANGED <<isSearching, searching>>
            /\ ev' = Event("AddStationScreen.handleSearch", {"short"})
       ELSE /\ Pending < MaxPending
            /\ isSearching' = TRUE
            /\ searching' = [searching EXCEPT ![text] = @ + 1]
            /\ UNCHANGED searchResults
            /\ ev' = Event("AddStationScreen.handleSearch", {"sent"})
    /\ alert' = ""
    /\ console' = ""
    /\ camera' = NoCamera
    /\ UNCHANGED <<addRegion, address, stationName, isSubmitting, user,
                   showSearch, addLocating, geocoding, detailing, inserting>>
    /\ UNCHANGED <<homeVars, mapVars>>

\* The autocomplete answers the search for text: status OK with predictions,
\* another status, or the request throws; finally clears the flag.
AddSearchSettled(text, outcome) ==
    /\ searching[text] > 0
    /\ searching' = [searching EXCEPT ![text] = @ - 1]
    /\ searchResults' = IF outcome = "OK" THEN text ELSE searchResults
    /\ isSearching' = FALSE
    /\ console' = IF outcome = "threw" THEN "Search error:" ELSE ""
    /\ alert' = ""
    /\ camera' = NoCamera
    /\ ev' = Event("AddStationScreen.handleSearch.settled", {outcome})
    /\ UNCHANGED <<addRegion, address, stationName, isSubmitting, user,
                   searchQuery, showSearch, addLocating, geocoding, detailing,
                   inserting>>
    /\ UNCHANGED <<homeVars, mapVars>>

\* selectPlace(place) up to its await; the list is shown with showSearch and
\* a non-empty searchResults.
SelectPlace ==
    /\ showSearch
    /\ searchResults # << >>
    /\ Pending < MaxPending
    /\ searchQuery' = PlaceName
    /\ searchResults' = << >>
    /\ showSearch' = FALSE
    /\ stationName' = PlaceName
    /\ detailing' = detailing + 1
    /\ alert' = ""
    /\ console' = ""
    /\ camera' = NoCamera
    /\ ev' = Event("AddStationScreen.selectPlace", {})
    /\ UNCHANGED <<addRegion, address, isSubmitting, user, isSearching,
                   addLocating, geocoding, searching, inserting>>
    /\ UNCHANGED <<homeVars, mapVars>>

\* The place details arrive: status OK with a location, another status, a throw.
DetailsSettled(outcome, r) ==
    /\ detailing > 0
    /\ detailing' = detailing - 1
    /\ IF outcome = "OK"
       THEN /\ camera' = IF addRegion = NullRegion THEN NoCamera  \* cameraRef.current?.
                          ELSE [kind |-> "setCamera", a |-> <<r.longitude, r.latitude>>,
                                b |-> <<r.longitude, r.latitude>>]
            /\ addRegion' = r
            /\ ReverseGeocode(r)
       ELSE /\ camera' = NoCamera
            /\ UNCHANGED <<addRegion, geocoding>>
    /\ console' = IF outcome = "threw" THEN "Place details error:" ELSE ""
    /\ alert' = ""
    /\ ev' = Event("AddStationScreen.selectPlace.settled", {outcome})
    /\ UNCHANGED <<address, stationName, isSubmitting, user, searchQuery,
                   searchResults, isSearching, showSearch, addLocating, searching,
                   inserting>>
    /\ UNCHANGED <<homeVars, mapVars>>

\* onChangeText of the station name input.
SetStationName(text) ==
    /\ stationName # text
    /\ stationName' = text
    /\ alert' = ""
    /\ console' = ""
    /\ camera' = NoCamera
    /\ ev' = Event("AddStationScreen.setStationName", {})
    /\ UNCHANGED <<addRegion, address, isSubmitting, user, searchQuery,
                   searchResults, isSearching, showSearch, addLocating, geocoding,
                   searching, detailing, inserting>>
    /\ UNCHANGED <<homeVars, mapVars>>

\* useAuth: the user signs in or out.
AuthChanged(u) ==
    /\ user # u
    /\ user' = u
    /\ alert' = ""
    /\ console' = ""
    /\ camera' = NoCamera
    /\ ev' = Event("useAuth", {})
    /\ UNCHANGED <<addRegion, address, stationName, isSubmitting, searchQuery,
                   searchResults, isSearching, showSearch, addLocating, geocoding,
                   searching, detailing, inserting>>
    /\ UNCHANGED <<homeVars, mapVars>>

\* Mutant of handleSubmit: the name is tested without trim.
SubmitCaseNoTrim ==
    IF stationName = << >> THEN "noName"
    ELSE IF addRegion = NullRegion THEN "noRegion"
    ELSE IF user = "null" THEN "noUser"
    ELSE "insert"

\* The checks of handleSubmit, in their order.
SubmitCase ==
    IF Trim(stationName) = << >> THEN "noName"
    ELSE IF addRegion = NullRegion THEN "noRegion"
    ELSE IF user = "null" THEN "noUser"
    ELSE "insert"

\* handleSubmit up to its await; the button is disabled while isSubmitting.
HandleSubmit ==
    /\ ~isSubmitting
    /\ IF SubmitCase = "insert"
       THEN /\ Pending < MaxPending
            /\ isSubmitting' = TRUE
            /\ inserting' = inserting + 1
            /\ alert' = ""
       ELSE /\ UNCHANGED <<isSubmitting, inserting>>
            /\ alert' = IF SubmitCase = "noName" THEN "Error: Please enter a station name"
                        ELSE IF SubmitCase = "noRegion" THEN "Error: Location not selected"
                        ELSE "Authentication Required"
    /\ console' = ""
    /\ camera' = NoCamera
    /\ ev' = Event("AddStationScreen.handleSubmit", {SubmitCase})
    /\ UNCHANGED <<addRegion, address, stationName, user, searchQuery,
                   searchResults, isSearching, showSearch, addLocating, geocoding,
                   searching, detailing>>
    /\ UNCHANGED <<homeVars, mapVars>>

\* The insert answers: rows, or an error (thrown into the catch); finally
\* clears the flag.
InsertSettled(outcome) ==
    /\ inserting > 0
    /\ inserting' = inserting - 1
    /\ isSubmitting' = FALSE
    /\ alert' = IF outcome = "ok" THEN "Success" ELSE "Error: Failed to add station"
    /\ console' = ""
    /\ camera' = NoCamera
    /\ ev' = Event("AddStationScreen.handleSubmit.settled", {outcome})
    /\ UNCHANGED <<addRegion, address, stationName, user, searchQuery,
                   searchResults, isSearching, showSearch, addLocating, geocoding,
                   searching, detailing>>
    /\ UNCHANGED <<homeVars, mapVars>>

AddNext ==
    \/ AddSetup
    \/ \E r \in Regions, outcome \in {"address", "empty", "threw"} :
          ReverseGeocodeSettled(r, outcome)
    \/ \E r \in Regions : AddOnRegionDidChange(r)
    \/ FocusSearch
    \/ \E text \in SearchTexts : AddHandleSearch(text)
    \/ \E text \in LongTexts, outcome \in {"OK", "notOK", "threw"} :
          AddSearchSettled(text, outcome)
    \/ SelectPlace
    \/ \E outcome \in {"OK", "notOK", "threw"}, r \in Regions : DetailsSettled(outcome, r)
    \/ \E text \in Queries : SetStationName(text)
    \/ \E u \in Users \cup {"null"} : AuthChanged(u)
    \/ HandleSubmit
    \/ \E outcome \in {"ok", "error"} : InsertSettled(outcome)

AddSpec == Init /\ [][AddNext]_vars

\* ------------------------------------------------------------------ claims
BatchIds(rec) == {i \in StationIds : rec[i] # 0}

\* C1: a station fetch is issued only when the debounce timer has elapsed, one
\* per elapsed timer, with the region of the last call (the current region), and
\* never with a region that a later call of the same window replaced; a region
\* change itself issues nothing and restarts the full window for its region.
C1_DebounceLastWins ==
    [][/\ inflight' > inflight =>
            /\ pendingArgs # << >>
            /\ timeLeft = 0
            /\ inflight' = inflight + 1
            /\ request' = pendingArgs[1]
            /\ request' = currentRegion
            /\ request' \notin dropped
            /\ pendingArgs' = << >>
       /\ ev'.op = "onRegionDidChange" =>
            /\ inflight' = inflight
            /\ request' = NullRegion
            /\ pendingArgs' = <<currentRegion'>>
            /\ timeLeft' = DebounceWait]_vars

\* C1 witness: a fetch was just issued for the current region after a window in
\* which a call for another region had been replaced.
C1_Witness ==
    /\ ev.op = "fetchStationsForRegion"
    /\ "discarded" \in ev.tags
    /\ request = currentRegion
    /\ request # NullRegion

\* C2: a successful fetch leaves exactly one entry for every id of the previous
\* list or of the batch: the batch's record for the ids of the batch, the
\* unchanged previous record for every other id.
C2_MergeById ==
    [][ev'.op = "fetchStationsForRegion.ok" =>
        /\ UniqueIds(stations')
        /\ Ids(stations') = Ids(stations) \cup BatchIds(received')
        /\ \A k \in 1..Len(stations') :
              IF stations'[k].id \in BatchIds(received')
              THEN stations'[k].rev = received'[stations'[k].id]
              ELSE \E j \in 1..Len(stations) : stations[j] = stations'[k]]_vars

\* C2 witness: a batch that repeated an id was merged, replaced a record of the
\* list and left another id of the list untouched.
C2_Witness ==
    /\ ev.op = "fetchStationsForRegion.ok"
    /\ "mixed" \in ev.tags
    /\ Len(stations) > 1

\* C3: whatever the order in which overlapping fetches complete, since the last
\* reset the ids of the list are the union of the ids of all batches applied,
\* and every id holds the record of the batch applied last among those that
\* carried it.
C3_UnionLastWins ==
    /\ UniqueIds(stations)
    /\ Ids(stations) = BatchIds(delivered)
    /\ \A k \in 1..Len(stations) : stations[k].rev = delivered[stations[k].id]

\* C3 witness: a fetch completed while another was still in flight and its batch
\* replaced a record of an earlier batch.
C3_Witness ==
    /\ ev.op = "fetchStationsForRegion.ok"
    /\ "overlap" \in ev.tags
    /\ "overwrote" \in ev.tags
    /\ inflight > 0

\* C4: a find-trip request puts the trip state in Planning; a route built
\* without error takes it from Planning to Active, clears the station list and
\* installs the route; cancel takes it from Active to Idle, clears the route and
\* hands the current region to the debounced station fetch.
C4_TripModeCycle ==
    [][/\ ev'.op = "handleFindTrip" => TripState' = "Planning"
       /\ (ev'.op = "handleFindTrip.routed" /\ "ok" \in ev'.tags) =>
            /\ TripState = "Planning"
            /\ TripState' = "Active"
            /\ stations' = << >>
            /\ route' # NoRoute
            /\ route'.geometry \in RouteCoords \ {<< >>}
       /\ (ev'.op = "cancelTripMode" /\ TripState = "Active") =>
            /\ TripState' = "Idle"
            /\ route' = NoRoute
            /\ pendingArgs' = <<currentRegion>>
            /\ currentRegion' = currentRegion
            /\ timeLeft' = DebounceWait]_vars

\* C4 witness: trip mode was cancelled from Active and the screen is back in
\* Idle with a station fetch for the current region pending.
C4_Witness ==
    /\ ev.op = "cancelTripMode"
    /\ "Active" \in ev.tags
    /\ TripState = "Idle"
    /\ route = NoRoute
    /\ pendingArgs = <<currentRegion>>

\* A step in which a find-trip request fails: a throw before the state is set,
\* or the throw of the bounds scan.
TripFailureStep ==
    \/ ev'.op = "handleFindTrip.failed"
    \/ ev'.op = "handleFindTrip.routed" /\ "threw" \in ev'.tags

\* C5: when a find-trip request fails, an error is shown, Planning ends, and the
\* route, the station list and the trip-mode flag are what they were.
C5_FailureLeavesState ==
    [][TripFailureStep =>
        /\ alert' = "Error Finding Route"
        /\ isTripLoading' = FALSE
        /\ route' = route
        /\ stations' = stations
        /\ isTripModeActive' = isTripModeActive]_vars

\* C6: a failed station fetch leaves the list as it was, logs the error, shows
\* no alert and issues or schedules nothing; a fetch is issued only by the
\* elapsed debounce timer, and the timer is armed only by a region change or a
\* trip cancel.
C6_FetchErrorNoRetry ==
    [][/\ ev'.op = "fetchStationsForRegion.error" =>
            /\ stations' = stations
            /\ console' = "Error fetching stations:"
            /\ alert' = ""
            /\ inflight' = inflight - 1
            /\ request' = NullRegion
            /\ pendingArgs' = pendingArgs
            /\ timeLeft' = timeLeft
       /\ inflight' > inflight => ev'.op = "fetchStationsForRegion"
       /\ (pendingArgs' # << >> /\ (pendingArgs = << >> \/ timeLeft' > timeLeft)) =>
            ev'.op \in {"onRegionDidChange", "cancelTripMode"}]_vars

\* C6 witness: a fetch failed while the list held stations, and no fetch is in
\* flight or pending afterwards.
C6_Witness ==
    /\ ev.op = "fetchStationsForRegion.error"
    /\ "nonempty" \in ev.tags
    /\ stations # << >>
    /\ inflight = 0
    /\ pendingArgs = << >>

\* C7: while trip mode is on with a route that was built without error, the
\* station list stays empty.
C7_NoStationsInTripMode ==
    (isTripModeActive /\ route # NoRoute /\ route.geometry # << >>) => stations = << >>

\* C8 as claimed: the cancel of an active trip issues the station fetch for the
\* current region at once.
C8_CancelFetchesAtOnce ==
    [][(ev'.op = "cancelTripMode" /\ TripState = "Active" /\ route.geometry # << >>) =>
        /\ inflight' = inflight + 1
        /\ request' = currentRegion]_vars

\* C8 as amended: cancel issues no fetch; it hands the current region to the
\* debounced fetch with the full window, and a region change that follows in
\* the window replaces the pending region and restarts the window.
C8_CancelGoesThroughDebounce ==
    [][/\ ev'.op = "cancelTripMode" =>
            /\ inflight' = inflight
            /\ request' = NullRegion
            /\ pendingArgs' = <<currentRegion>>
            /\ timeLeft' = DebounceWait
       /\ (ev.op = "cancelTripMode" /\ ev'.op = "onRegionDidChange") =>
            /\ inflight' = inflight
            /\ pendingArgs' = <<currentRegion'>>
            /\ timeLeft' = DebounceWait]_vars

\* C8 witness: right after a cancel a region change for another region replaced
\* the pending fetch of the cancel; nothing was issued.
C8_Witness ==
    /\ ev.op = "onRegionDidChange"
    /\ "replacedCancel" \in ev.tags
    /\ pendingArgs = <<currentRegion>>
    /\ dropped # {}
    /\ request = NullRegion

\* C9: an id leaves the station list only in a step that enters or leaves trip
\* mode.
C9_IdsNeverShrink ==
    [][~(Ids(stations) \subseteq Ids(stations')) =>
        ev'.op \in {"handleFindTrip.routed", "cancelTripMode"}]_vars

\* C9 witness: a batch was merged and an id it did not carry is still listed.
C9_Witness ==
    /\ ev.op = "fetchStationsForRegion.ok"
    /\ Ids(stations) \ BatchIds(received) # {}

\* C10: at most one find-trip request is outstanding, and on the mounted screen
\* the loading flag of the trip is set exactly while one is.
C10_OneOutstandingTrip ==
    /\ Cardinality({t \in TripSlots : trips[t] # "none"}) <= 1
    /\ mounted => (isTripLoading <=> \E t \in TripSlots : trips[t] # "none")

\* C10 witness: a find-trip request is waiting for its routing answer.
C10_Witness ==
    /\ isTripLoading
    /\ \E t \in TripSlots : trips[t] = "routing"

\* The minimal box of a coordinate list, stated without a scan: the least and
\* the greatest longitude and latitude that occur in it.
Least(S) == CHOOSE x \in S : \A y \in S : x <= y

Greatest(S) == CHOOSE x \in S : \A y \in S : x >= y

MinBox(coords) ==
    LET lons == {coords[i][1] : i \in 1..Len(coords)}
        lats == {coords[i][2] : i \in 1..Len(coords)}
    IN [sw |-> <<Least(lons), Least(lats)>>, ne |-> <<Greatest(lons), Greatest(lats)>>]

CoordLists == SeqsUpTo(RoutePoints, MaxRoute)

\* C11 over every coordinate list of at least 2 points: the scan of
\* handleFindTrip and the reduce of fetchRoute both yield the minimal box, its
\* south-west corner is nowhere above its north-east corner, and every point
\* of the list lies inside.
C11_EveryList ==
    \A coords \in CoordLists :
        Len(coords) >= 2 =>
            LET b == RouteBounds(coords)
                r == FitRouteBounds(coords)
                m == MinBox(coords)
            IN /\ <<b.minLon, b.minLat>> = m.sw
               /\ <<b.maxLon, b.maxLat>> = m.ne
               /\ r.sw = m.sw
               /\ r.ne = m.ne
               /\ b.minLon <= b.maxLon /\ b.minLat <= b.maxLat
               /\ \A i \in 1..Len(coords) :
                     /\ b.minLon <= coords[i][1] /\ coords[i][1] <= b.maxLon
                     /\ b.minLat <= coords[i][2] /\ coords[i][2] <= b.maxLat

C12_ShortRouteRaises ==
    [][(ev'.op = "handleFindTrip.routed" /\ Len(route'.geometry) < 2) =>
        /\ alert' = "Error Finding Route"
        /\ route' = route
        /\ camera' = NoCamera]_vars

\* Every StationSet the list can hold: at most one record per id, in any order.
StationSets == {q \in SeqsUpTo(Station, Cardinality(StationIds)) : UniqueIds(q)}

\* What received keeps of a batch: per id, the last record that carries it.
Summary(data) == [i \in StationIds |-> IF i \in Ids(data) THEN LastRev(data, i) ELSE 0]

\* C13 over every StationSet and every batch.
C13_EveryMerge ==
    \A S \in StationSets, B \in Batches :
        MergeStations(MergeStations(S, B), B) = MergeStations(S, B)

\* C13: merging a batch a second time changes nothing,
\* merge(merge(S, B), B) = merge(S, B): for every StationSet and batch, and in
\* particular for the list a successful fetch just produced and its batch.
C13_MergeIdempotent ==
    /\ C13_EveryMerge
    /\ ev.op = "fetchStationsForRegion.ok" =>
          \A B \in Batches : Summary(B) = received => MergeStations(stations, B) = stations

\* C13 witness: a batch carrying every id was just merged and replaced a record.
C13_Witness ==
    /\ ev.op = "fetchStationsForRegion.ok"
    /\ "overwrote" \in ev.tags
    /\ BatchIds(received) = StationIds

\* C14 over every StationSet.
C14_EverySet == \A S \in StationSets : MergeStations(S, << >>) = S

\* C14: merging an empty batch leaves the StationSet as it was: the same
\* records in the same order.
C14_EmptyBatch ==
    [][/\ C14_EverySet
       /\ (ev'.op = "fetchStationsForRegion.ok" /\ BatchIds(received') = {}) =>
             stations' = stations]_vars

\* C14 witness: a fetch answered with an empty batch while the list held every id.
C14_Witness ==
    /\ ev.op = "fetchStationsForRegion.ok"
    /\ BatchIds(received) = {}
    /\ Ids(stations) = StationIds

\* name contains term, letter case ignored, stated position by position.
ContainsIgnoringCase(name, term) ==
    \E from \in 0..(Len(name) - Len(term)) :
        \A k \in 1..Len(term) :
            \/ name[from + k] = term[k]
            \/ {name[from + k], term[k]} = {"s", "S"}

\* out holds exactly the stations of list whose name contains term, in the
\* order of list.
ExactlyMatching(out, list, term) ==
    /\ {out[k] : k \in 1..Len(out)}
          = {list[i] : i \in {j \in 1..Len(list) : ContainsIgnoringCase(NameOf(list[j]), term)}}
    /\ \A j, k \in 1..Len(out) :
          j < k => \E a, b \in 1..Len(list) : a < b /\ list[a] = out[j] /\ list[b] = out[k]

\* C15 as claimed: for every filter term the displayed stations are exactly the
\* stations whose name contains the term, case ignored, in the order of the
\* full set; the empty term gives the full set.
C15_FilterBySubstring ==
    \A term \in FilterTerms :
        /\ ExactlyMatching(FilteredStations(stations, term), stations, term)
        /\ term = << >> => FilteredStations(stations, term) = stations

\* The amended statement for one list.
FiltersUnlessBlank(list) ==
    \A term \in FilterTerms :
        IF \A k \in 1..Len(term) : term[k] = " "
        THEN FilteredStations(list, term) = list
        ELSE ExactlyMatching(FilteredStations(list, term), list, term)

\* C15 as amended, over every StationSet.
C15_EverySet == \A S \in StationSets : FiltersUnlessBlank(S)

\* C15 as amended: a term that is empty or holds only blanks gives the full
\* set, unchanged in membership and order; every other term gives exactly the
\* stations whose name contains it, case ignored, in the order of the full set.
\* This holds for every StationSet, and the list is always one of them.
C15_FilterUnlessBlank ==
    /\ C15_EverySet
    /\ stations \in StationSets

\* C15 witness: the list holds two stations; one term keeps only the second of
\* them through a match that needs the case ignored, and the blank term keeps
\* both although one name holds no blank.
C15_Witness ==
    /\ Len(stations) = 2
    /\ FilteredStations(stations, <<"s">>) = <<stations[2]>>
    /\ \A k \in 1..Len(NameOf(stations[2])) : NameOf(stations[2])[k] # "s"
    /\ FilteredStations(stations, <<" ">>) = stations
    /\ \E k \in 1..2 : ~Includes(NameOf(stations[k]), <<" ">>)

\* text shows meters as kilometers with one decimal, a nearest one, and ' km'.
ShowsKilometers(text, meters) ==
    \E tenths \in 0..(meters \div 100 + 1) :
        /\ 100 * tenths - meters \in -50..50
        /\ text = Decimal(tenths \div 10) \o <<".">> \o Decimal(tenths % 10) \o <<" ", "k", "m">>

\* text shows seconds as whole minutes, a nearest number of them, and ' min'.
ShowsMinutes(text, seconds) ==
    \E minutes \in 0..(seconds \div 60 + 1) :
        /\ 60 * minutes - seconds \in -30..30
        /\ text = Decimal(minutes) \o <<" ", "m", "i", "n">>

\* C16 over every distance of 0..MaxMeters meters and every duration of
\* 0..MaxSeconds seconds, and the two examples.
C16_EveryValue ==
    /\ \A meters \in 0..MaxMeters : ShowsKilometers(FormatDistance(meters), meters)
    /\ \A seconds \in 0..MaxSeconds : ShowsMinutes(FormatDuration(seconds), seconds)
    /\ FormatDistance(12345) = <<"1", "2", ".", "3", " ", "k", "m">>
    /\ FormatDuration(125) = <<"2", " ", "m", "i", "n">>

\* C16: the distance of a route is shown as kilometers rounded to one decimal
\* followed by ' km' and its duration as minutes rounded to a nearest integer
\* followed by ' min'; 12345 m gives "12.3 km", 125 s gives "2 min"; whenever
\* the router answers with a route both texts are set, whatever its values.
C16_Formatting ==
    [][/\ C16_EveryValue
       /\ \A data \in MapAnswers :
             (FetchRouteSettled(data) /\ data.code = "Ok" /\ Len(data.routes) > 0) =>
                /\ ShowsKilometers(routeDistance', data.routes[1].distance)
                /\ ShowsMinutes(routeDuration', data.routes[1].duration)]_vars

\* C16 witness: a route of 12345 m and 125 s was just shown.
C16_Witness ==
    /\ ev = Event("MapScreen.fetchRoute.settled", {"Ok", "shown"})
    /\ routeDistance = <<"1", "2", ".", "3", " ", "k", "m">>
    /\ routeDuration = <<"2", " ", "m", "i", "n">>

IsBlank(text) == \A i \in 1..Len(text) : text[i] = " "

\* C18: handleSubmit issues the insert only when the station name is not
\* blank, a location is selected and a user is signed in; in every other case
\* the step shows a notice, starts no request of any kind and leaves
\* isSubmitting false.
C18_SubmitValidated ==
    [][ev'.op = "AddStationScreen.handleSubmit" =>
        IF ~IsBlank(stationName) /\ addRegion # NullRegion /\ user # "null"
        THEN /\ inserting' = inserting + 1
             /\ isSubmitting'
        ELSE /\ alert' # ""
             /\ inserting' = inserting
             /\ geocoding' = geocoding /\ searching' = searching
             /\ detailing' = detailing
             /\ ~isSubmitting']_vars

\* A submission with a name of white space only, a location and a user has
\* been refused with the notice about the name.
C18_Witness ==
    /\ ev = Event("AddStationScreen.handleSubmit", {"noName"})
    /\ stationName = <<" ">>
    /\ addRegion # NullRegion
    /\ user # "null"
    /\ alert = "Error: Please enter a station name"
    /\ ~isSubmitting
    /\ inserting = 0

\* C19: every failure of a primary action ends in a notice to the user; on
\* MapScreen, a routing answer whose code is not Ok and a geocoding request
\* that throws each raise an alert in the step that handles them.
C19_FailuresNoticed ==
    [][(\/ ev'.op = "MapScreen.fetchRoute.settled" /\ "notOk" \in ev'.tags
        \/ ev'.op = "MapScreen.handleSearch.settled" /\ "threw" \in ev'.tags)
       => alert' # ""]_vars

\* C20: once the initial setup of AddStationScreen has settled, the region is
\* set, and it is the fallback region when permission was not granted.
C20_FallbackRegion ==
    ev.op = "AddStationScreen.setup" =>
        /\ addRegion # NullRegion
        /\ "granted" \notin ev.tags => addRegion = FallbackRegion

\* C21: on the mounted home screen isLoading is true in every state in which
\* at least one station fetch is in flight, and false once a completion has
\* left none in flight; the completion of one of two overlapping fetches does
\* not clear it.
C21_LoadingWhileInFlight ==
    mounted =>
        /\ inflight > 0 => isLoading
        /\ (/\ inflight = 0
            /\ ev.op \in {"fetchStationsForRegion.ok", "fetchStationsForRegion.error"})
           => ~isLoading

\* No reverse-geocode call of AddStationScreen awaits its answer.
NoGeocodePending(g) == \A r \in Regions : g[r] = 0

\* C22: a reverse-geocode answer that completes the last outstanding call and
\* changes the address shown is the answer for the current map region: a late
\* answer for an older region never overwrites the address of a newer one.
C22_AddressOfLatestRegion ==
    [][(/\ ev'.op = "AddStationScreen.reverseGeocode.settled"
        /\ NoGeocodePending(geocoding')
        /\ address' # address)
       => address' = addRegion']_vars

\* No place search of AddStationScreen awaits its answer.
NoSearchPending(q) == \A text \in LongTexts : q[text] = 0

\* C23: when the answer to the last outstanding place search has been handled,
\* the result list is empty if the latest text has fewer than 3 characters,
\* and a list this answer has put in place is the list for the latest text.
C23_ResultsOfLatestText ==
    [][(/\ ev'.op = "AddStationScreen.handleSearch.settled"
        /\ NoSearchPending(searching'))
       => /\ Len(searchQuery') < 3 => searchResults' = << >>
          /\ searchResults' # searchResults => searchResults' = searchQuery']_vars

====
